---------------------------- MODULE Spec2Model ----------------------------
(***************************************************************************)
(* A model of lsst.atmospec's processStar.py: the spectral bounding-box    *)
(* calculator (ProcessStarTask.calcSpectrumBBox), the detection            *)
(* (findObjects), the main-source selectors (getRoundestObject,            *)
(* getBrightestObject, findMainSource), the target locator                 *)
(* (getTargetCentroidFromWcs and its two catalog lookups) and the          *)
(* orchestration of ProcessStarTask.runDataRef and run.                    *)
(*                                                                         *)
(* Each Python function is an operator computed as the code computes it;   *)
(* each specification draws the inputs of one component in its initial     *)
(* states and applies the operators in its actions.  Exceptions are        *)
(* results: a record field `error` holds the name of the exception type    *)
(* that leaves the function ("none" when it returns).                      *)
(***************************************************************************)
EXTENDS Integers, Sequences, FiniteSets, TLC

VARIABLES
    pc,             \* position of the running operation
    config,         \* ProcessStarTaskConfig: the fields the operations read
    exp,            \* the exposure: width, height, filter and metadata
    centroid,       \* calcSpectrumBBox: argument centroid, <<x, y>>
    aperture,       \* calcSpectrumBBox: argument aperture
    order,          \* calcSpectrumBBox: argument order
    xStart,         \* calcSpectrumBBox: local xStart
    xEnd,           \* calcSpectrumBBox: local xEnd
    yStart,         \* calcSpectrumBBox: local yStart
    yEnd,           \* calcSpectrumBBox: local yEnd
    bbox,           \* calcSpectrumBBox: the returned Box2I, NoBox before/without
    footPrintSet,   \* selectors: the footprints of the detection, in order
    fluxCut,        \* getRoundestObject: argument fluxCut
    roundnessCut,   \* getBrightestObject: argument roundnessCut
    source,         \* selectors: index of the returned footprint, 0 if none
    sourceCentroid, \* findMainSource / runDataRef: the centroid, or None
    catalogs,       \* what the Vizier and Simbad services hold for the target
    doMotionCorrection, \* getTargetCentroidFromWcs: argument
    resultFrom,     \* getTargetCentroidFromWcs: local resultFrom
    targetLocation, \* getTargetCentroidFromWcs: local targetLocation
    pixCoord,       \* getTargetCentroidFromWcs: the returned value
    calls,          \* the calls made to the services and to the WCS, in order
    warnings,       \* the warnings logged, in order
    butler,         \* the datasets of the dataId in the data repository
    existedAtStart, \* the dataset types that existed when runDataRef began
    puts,           \* the dataset types put by the running runDataRef, in order
    astromResult,   \* runDataRef: local astromResult, "None" or "result"
    spectractorCalls, \* the calls of spectractor.run made, in order
    runCount,       \* the number of runDataRef calls made on the dataId
    solverOutcome,  \* what the astrometric solver did in the running call
    runArgs,        \* the centroids passed to run(), each with the number of
                    \* the runDataRef call and whether that call put the calexp
    image,          \* findObjects: the bright regions of the exposure's image
    nSigma,         \* findObjects: argument nSigma, 0 when omitted (None)
    grow,           \* findObjects: argument grow
    found,          \* findObjects: its locals and the returned footprint set
    error           \* exception type leaving the operation, "none" if none

bboxVars == <<centroid, aperture, order, xStart, xEnd, yStart, yEnd, bbox>>
selectVars == <<footPrintSet, fluxCut, roundnessCut, source>>
locatorIn == <<catalogs, doMotionCorrection>>
locatorOut == <<resultFrom, targetLocation, pixCoord, calls, warnings>>
locatorVars == <<locatorIn, locatorOut>>

runVars == <<butler, existedAtStart, puts, astromResult, spectractorCalls,
             runCount, solverOutcome, runArgs>>
findVars == <<image, nSigma, grow, found>>

vars == <<pc, config, exp, bboxVars, selectVars, locatorVars, runVars,
          findVars, sourceCentroid, error>>

-----------------------------------------------------------------------------
(* Bounds of the model *)

MaxImageSize == 4       \* image widths and heights are MaxImageSize-1, MaxImageSize
Margin == 2             \* centroids lie up to Margin pixels outside the image
MaxAperture == 4        \* apertures 1..MaxAperture
MaxExtent == 3          \* spectrumLengthPixels 1..MaxExtent
MaxOffset == 1          \* offsetFromMainStar 0..MaxOffset

(* Program constants: the defaults of ProcessStarTaskConfig and the        *)
(* end-to-end example of the specification (section 8).                    *)

DefaultAperture == 250
DefaultSpectrumLengthPixels == 5000
DefaultOffsetFromMainStar == 100
DefaultMainStarFluxCut == 10000000
ExampleImageSize == 4000
ExampleCentroid == 512
DefaultMainStarNpixMin == 10
DefaultMainStarNsigma == 200
DefaultMainStarGrow == 5

-----------------------------------------------------------------------------
(* ProcessStarTaskConfig *)

SpectralOrders == {"+1", "-1", "both"}
FindingMethods == {"BRIGHTEST", "ROUNDEST"}

\* Python's None where a centroid is expected, and a pixel position.
None == [ kind |-> "None", x |-> 0, y |-> 0 ]
Point(px, py) == [ kind |-> "point", x |-> px, y |-> py ]

\* Cuts on the ellipticity are fractions <<numerator, denominator>>.
\* mainStarRoundnessCut defaults to 0.2; getBrightestObject's own default
\* (1e9) exceeds every ellipticity, as does the fraction 2/1 used for it.
DefaultMainStarRoundnessCut == <<1, 5>>
DefaultRoundnessCutArg == <<2, 1>>
\* getRoundestObject's default fluxCut (1e-15) lies below every positive flux.
DefaultFluxCutArg == 0

DefaultConfig ==
    [ mainSourceFindingMethod |-> "BRIGHTEST",
      mainStarRoundnessCut    |-> DefaultMainStarRoundnessCut,
      mainStarFluxCut         |-> DefaultMainStarFluxCut,
      mainStarNpixMin         |-> DefaultMainStarNpixMin,
      mainStarNsigma          |-> DefaultMainStarNsigma,
      mainStarGrow            |-> DefaultMainStarGrow,
      mainStarGrowIsotropic   |-> FALSE,
      spectrumLengthPixels    |-> DefaultSpectrumLengthPixels,
      offsetFromMainStar      |-> DefaultOffsetFromMainStar,
      spectralOrder           |-> "+1",
      forceObjectName         |-> "",
      referenceFilterOverride |-> "phot_g_mean" ]

\* A position on the sky (lsst.geom.SpherePoint), in the units of the model.
SpherePoint(ra, dec) == [ kind |-> "sphere", x |-> ra, y |-> dec ]

\* The exposure's WCS maps the sky position crval to the pixel crpix.
DefaultWcs == [ crval |-> <<0, 0>>, crpix |-> <<0, 0>> ]

\* epochYears: the years from the Hipparcos epoch J1991.25 to the date of the
\* exposure's visit.
\* The tuple (None, None) and an absent pair of metadata keys.
NoneNone == [ kind |-> "NoneNone", x |-> 0, y |-> 0 ]
NotSet == [ kind |-> "NotSet", x |-> 0, y |-> 0 ]

\* OBJECT and OBJECTXY are the metadata keys OBJECT and OBJECTX, OBJECTY;
\* filter is the exposure's filter.
DefaultExposure ==
    [ width |-> ExampleImageSize, height |-> ExampleImageSize,
      wcs |-> DefaultWcs, epochYears |-> 0,
      filter |-> "observed", OBJECT |-> "HD 185975", OBJECTXY |-> NotSet ]

\* No stored calexp.
NoCalexp == [ stored |-> FALSE, filter |-> "observed", OBJECTXY |-> NotSet ]

\* The state of runDataRef's variables when it is not running.
RunIdle ==
    /\ butler = [ datasets |-> {}, calexp |-> NoCalexp ]
    /\ existedAtStart = {}
    /\ puts = << >>
    /\ astromResult = "None"
    /\ spectractorCalls = << >>
    /\ runCount = 0
    /\ solverOutcome = "notRun"
    /\ runArgs = << >>

\* The state of the target locator's variables when it is not running.
DefaultCatalogs ==
    [ vizier |-> "noHip2", simbadEntries |-> 0,
      hipPos |-> <<0, 0>>, pm |-> <<0, 0>>, simbadPos |-> <<0, 0>> ]

LocatorIdle ==
    /\ catalogs = DefaultCatalogs
    /\ doMotionCorrection = TRUE
    /\ resultFrom = "None"
    /\ targetLocation = None
    /\ pixCoord = None
    /\ calls = << >>
    /\ warnings = << >>

\* The state of findObjects' variables when it is not running.
NotFound ==
    [ nSigma |-> 0, grow |-> 0, isotropic |-> "unbound", footPrintSet |-> {} ]

FindIdle ==
    /\ image = << >>
    /\ nSigma = 0
    /\ grow = 0
    /\ found = NotFound

-----------------------------------------------------------------------------
(* calcSpectrumBBox *)

Min(a, b) == IF a < b THEN a ELSE b
Max(a, b) == IF a > b THEN a ELSE b

NoBox == [ minX |-> -1, minY |-> -1, maxX |-> -1, maxY |-> -1, made |-> FALSE ]

\* afwGeom.Box2I(Point2I(xStart, yStart), Point2I(xEnd, yEnd)): the box with
\* these corners; the constructor swaps the corners of an inverted dimension.
Box2I(minX, minY, maxX, maxY) ==
    [ minX |-> Min(minX, maxX), minY |-> Min(minY, maxY),
      maxX |-> Max(minX, maxX), maxY |-> Max(minY, maxY), made |-> TRUE ]

\* halfWidth = aperture//2
HalfWidth(ap) == ap \div 2

\* translate_y: the offset, replaced for order '-1' only
TranslateY(ord, extent, offset) ==
    IF ord = "-1" THEN (0 - extent) - offset ELSE offset

\* xStart = sourceX - halfWidth
XStartOf(sourceX, halfWidth) == sourceX - halfWidth

\* xEnd = sourceX + halfWidth - 1
XEndOf(sourceX, halfWidth) == sourceX + halfWidth - 1

\* yStart = sourceY + translate_y
YStartOf(sourceY, translateY) == sourceY + translateY

\* A slip: yEnd taken from the start already clipped to the image.
YEndOfClippedStart(ys, extent) == (IF ys > 0 THEN ys ELSE 0) + extent - 1

\* yEnd = yStart + extent - 1
YEndOf(ys, extent) == ys + extent - 1

\* A slip: the end clipped to the image size instead of the last pixel.
ClipEndToSize(end, size) == Min(end, size)

\* xEnd = min(xEnd, exp.getWidth()-1), yEnd = min(yEnd, exp.getHeight()-1)
ClipEnd(end, size) == Min(end, size - 1)

\* yStart = max(yStart, 0), xStart = max(xStart, 0)
ClipStart(start) == Max(start, 0)

\* A slip: the assertion with non-strict comparisons.
BBoxAssertionNonStrict(xs, xe, ys, ye) == (xe >= xs) /\ (ye >= ys)

\* assert (xEnd > xStart) and (yEnd > yStart)
BBoxAssertion(xs, xe, ys, ye) == (xe > xs) /\ (ye > ys)

\* Lines 792-804: the unclipped coordinates.
CalcSpectrumBBoxCompute ==
    /\ pc = "calcSpectrumBBox"
    /\ LET extent     == config.spectrumLengthPixels
           halfWidth  == HalfWidth(aperture)
           translateY == TranslateY(order, extent, config.offsetFromMainStar)
           ys         == YStartOf(centroid[2], translateY)
       IN  /\ xStart' = XStartOf(centroid[1], halfWidth)
           /\ xEnd' = XEndOf(centroid[1], halfWidth)
           /\ yStart' = ys
           /\ yEnd' = YEndOf(ys, extent)
    /\ pc' = "bboxClip"
    /\ UNCHANGED <<config, exp, centroid, aperture, order, bbox, error>>
    /\ UNCHANGED <<selectVars, locatorVars, runVars, findVars, sourceCentroid>>

\* Lines 806-816: clipping, the assertion and the returned box.
CalcSpectrumBBoxClip ==
    /\ pc = "bboxClip"
    /\ LET xe == ClipEnd(xEnd, exp.width)
           ye == ClipEnd(yEnd, exp.height)
           ys == ClipStart(yStart)
           xs == ClipStart(xStart)
       IN  /\ xStart' = xs /\ xEnd' = xe /\ yStart' = ys /\ yEnd' = ye
           /\ IF BBoxAssertion(xs, xe, ys, ye)
              THEN /\ bbox' = Box2I(xs, ys, xe, ye)
                   /\ error' = "none"
                   /\ pc' = "bboxReturned"
              ELSE /\ bbox' = NoBox
                   /\ error' = "AssertionError"
                   /\ pc' = "bboxRaised"
    /\ UNCHANGED <<config, exp, centroid, aperture, order>>
    /\ UNCHANGED <<selectVars, locatorVars, runVars, findVars, sourceCentroid>>

ImageSizes == (MaxImageSize - 1) .. MaxImageSize
CentroidCoords == (0 - Margin) .. (MaxImageSize + Margin - 1)

\* The calls of calcSpectrumBBox that are explored: every small combination,
\* and the worked example of the specification.
BBoxInputs ==
    [ width : ImageSizes, height : ImageSizes,
      x : CentroidCoords, y : CentroidCoords,
      aperture : 1 .. MaxAperture, order : SpectralOrders,
      extent : 1 .. MaxExtent, offset : 0 .. MaxOffset ]
    \cup
    [ width : {ExampleImageSize}, height : {ExampleImageSize},
      x : {ExampleCentroid}, y : {ExampleCentroid},
      aperture : {DefaultAperture}, order : SpectralOrders,
      extent : {DefaultSpectrumLengthPixels},
      offset : {DefaultOffsetFromMainStar} ]

InitBBox ==
    \E in \in BBoxInputs :
        /\ pc = "calcSpectrumBBox"
        /\ config = [ DefaultConfig EXCEPT !.spectrumLengthPixels = in.extent,
                                           !.offsetFromMainStar = in.offset ]
        /\ exp = [ DefaultExposure EXCEPT !.width = in.width, !.height = in.height ]
        /\ centroid = <<in.x, in.y>>
        /\ aperture = in.aperture
        /\ order = in.order
        /\ xStart = 0 /\ xEnd = 0 /\ yStart = 0 /\ yEnd = 0
        /\ bbox = NoBox
        /\ footPrintSet = << >> /\ fluxCut = DefaultFluxCutArg
        /\ roundnessCut = DefaultRoundnessCutArg /\ source = 0
        /\ sourceCentroid = None
        /\ LocatorIdle
        /\ RunIdle
        /\ FindIdle
        /\ error = "none"

NextBBox == CalcSpectrumBBoxCompute \/ CalcSpectrumBBoxClip

SpecBBox == InitBBox /\ [][NextBBox]_vars

-----------------------------------------------------------------------------
(* Properties of calcSpectrumBBox, checked under SpecBBox.  At             *)
(* pc = "bboxClip" the locals hold the unclipped coordinates; at           *)
(* "bboxReturned" and "bboxRaised" they hold the clipped ones.             *)

BBoxDone == pc \in {"bboxReturned", "bboxRaised"}

\* The unclipped start of the box along y, from the call's arguments.
UnclippedYStart ==
    IF order = "-1"
    THEN centroid[2] - config.spectrumLengthPixels - config.offsetFromMainStar
    ELSE centroid[2] + config.offsetFromMainStar

\* C1: before clipping, xStart = x - aperture/2 and xEnd = xStart + aperture - 1
\* for every centroid and every positive aperture, odd ones included, so that
\* the unclipped box is exactly `aperture` pixels wide.
C1_UnclippedXRange ==
    pc = "bboxClip" =>
        /\ xStart = centroid[1] - (aperture \div 2)
        /\ xEnd = xStart + aperture - 1

\* C2: before clipping, yStart = y + offset for order '+1' and
\* yStart = y - extractionLength - offset for order '-1'; in both cases
\* yEnd = yStart + extractionLength - 1 with the unclipped yStart, also in the
\* box that is finally returned (where only the image edge can lower it).
C2_UnclippedYRange ==
    order \in {"+1", "-1"} =>
        /\ pc = "bboxClip" =>
            /\ order = "+1" => yStart = centroid[2] + config.offsetFromMainStar
            /\ order = "-1" => yStart = centroid[2] - config.spectrumLengthPixels
                                            - config.offsetFromMainStar
            /\ yEnd = yStart + config.spectrumLengthPixels - 1
        /\ BBoxDone =>
            yEnd = Min(UnclippedYStart + config.spectrumLengthPixels - 1,
                       exp.height - 1)

C2_Witness ==
    /\ pc = "bboxReturned"
    /\ order = "-1"
    /\ UnclippedYStart < 0
    /\ bbox.minY = 0

\* C3: every returned box lies inside the image, for every centroid (also one
\* outside the image), aperture, extraction length, offset and order; an end
\* that would exceed the image is the last pixel.  The worked example
\* (centroid (512, 512), aperture 250, length 5000, offset 100, order +1,
\* height 4000) gives xStart 387, xEnd 636, yStart 612 and yEnd 3999.
C3_BoxInsideImage ==
    pc = "bboxReturned" =>
        /\ bbox.made
        /\ bbox.minX >= 0 /\ bbox.minY >= 0
        /\ bbox.maxX <= exp.width - 1 /\ bbox.maxY <= exp.height - 1
        /\ (centroid[1] + (aperture \div 2) - 1 > exp.width - 1)
               => bbox.maxX = exp.width - 1
        /\ (UnclippedYStart + config.spectrumLengthPixels - 1 > exp.height - 1)
               => bbox.maxY = exp.height - 1
        /\ ( /\ centroid = <<512, 512>> /\ aperture = 250 /\ order = "+1"
             /\ config.spectrumLengthPixels = 5000
             /\ config.offsetFromMainStar = 100 /\ exp.height = 4000 )
               => ( /\ bbox.minX = 387 /\ bbox.maxX = 636
                    /\ bbox.minY = 612 /\ bbox.maxY = 3999 )

C3_Witness ==
    /\ pc = "bboxReturned"
    /\ centroid = <<512, 512>> /\ aperture = 250 /\ order = "+1"
    /\ exp.height = 4000
    /\ bbox.maxY = 3999

\* A returned box for a centroid outside the image.
C3_WitnessOutside ==
    /\ pc = "bboxReturned"
    /\ centroid[1] > exp.width - 1
    /\ bbox.maxX = exp.width - 1

\* C4: a box is returned only when, after clipping, xEnd > xStart and
\* yEnd > yStart (both strict); otherwise the call ends in the assertion's
\* error and no box is returned.
C4_BoxOnlyIfStrictlyOrdered ==
    /\ pc = "bboxReturned" =>
          /\ xEnd > xStart /\ yEnd > yStart
          /\ error = "none"
          /\ bbox = [ minX |-> xStart, minY |-> yStart,
                      maxX |-> xEnd, maxY |-> yEnd, made |-> TRUE ]
    /\ pc = "bboxRaised" =>
          /\ ~(xEnd > xStart /\ yEnd > yStart)
          /\ error = "AssertionError"
          /\ bbox = NoBox
    /\ BBoxDone =>
          /\ xStart >= 0 /\ yStart >= 0
          /\ xEnd <= exp.width - 1 /\ yEnd <= exp.height - 1

C4_Witness ==
    /\ pc = "bboxRaised"
    /\ xEnd = xStart
    /\ yEnd > yStart

\* C5: with spectral order 'both' the call fails with an explicit
\* unsupported-configuration error and never returns a box.
C5_BothOrderFails ==
    order = "both" => (pc # "bboxReturned" /\ ~bbox.made)

-----------------------------------------------------------------------------
(* findObjects.                                                            *)
(*                                                                         *)
(* The image is one row of pixels, each holding its value in units of the  *)
(* image's standard deviation (the threshold is of type STDEV).  A         *)
(* footprint is a span <<first, last>> of adjacent pixels.  The first      *)
(* FootprintSet holds the maximal spans of pixels at or above the          *)
(* threshold that are at least nPixMin long; the second holds the spans    *)
(* of the pixels within `grow` of a footprint of the first, footprints     *)
(* that come to touch being merged.  In one row the isotropic and the      *)
(* Manhattan dilation agree, so the flag is kept but does not change the   *)
(* spans.  A local that was never assigned is "unbound".                   *)

MaxPixels == 4          \* images are rows of 1..MaxPixels pixels
MaxGrow == 2            \* argument grow is -1..MaxGrow

\* The maximal spans of adjacent pixels within the set of pixels `pixels'.
Spans(pixels) ==
    { sp \in pixels \X pixels :
        /\ sp[1] <= sp[2]
        /\ \A i \in sp[1] .. sp[2] : i \in pixels
        /\ (sp[1] - 1) \notin pixels
        /\ (sp[2] + 1) \notin pixels }

\* afwDetect.FootprintSet(exp.getMaskedImage(), threshold, "DETECTED", nPixMin)
Detect(img, threshold, nPixMin) ==
    { sp \in Spans({ i \in 1 .. Len(img) : img[i] >= threshold }) :
        sp[2] - sp[1] + 1 >= nPixMin }

\* afwDetect.FootprintSet(footPrintSet, grow, isotropic)
Dilate(img, fpSet, radius, isotropic) ==
    Spans({ i \in 1 .. Len(img) :
              \E sp \in fpSet : sp[1] - radius <= i /\ i <= sp[2] + radius })

\* `isotropic = self.config.mainStarGrowIsotropic`
Bound(flag) == IF flag THEN "True" ELSE "False"

\* findObjects(exp, nSigma=None, grow=0); 0 stands for an omitted nSigma,
\* `not nSigma` and `not grow` being true of None and of 0 alike.
findObjects(img, nSigmaArg, growArg, cfg) ==
    LET nPixMin   == cfg.mainStarNpixMin
        nSig      == IF nSigmaArg = 0 THEN cfg.mainStarNsigma ELSE nSigmaArg
        grw       == IF growArg = 0 THEN cfg.mainStarGrow ELSE growArg
        isotropic == IF growArg = 0 THEN Bound(cfg.mainStarGrowIsotropic)
                     ELSE "unbound"
        detected  == Detect(img, nSig, nPixMin)
        locals    == [ nSigma |-> nSig, grow |-> grw, isotropic |-> isotropic,
                       footPrintSet |-> detected ]
    IN  IF grw > 0
        THEN IF isotropic = "unbound"
             THEN [ error |-> "UnboundLocalError", found |-> locals ]
             ELSE [ error |-> "none",
                    found |-> [ locals EXCEPT !.footPrintSet =
                                  Dilate(img, detected, grw, isotropic) ] ]
        ELSE [ error |-> "none", found |-> locals ]

FindObjects ==
    /\ pc = "findObjects"
    /\ LET res == findObjects(image, nSigma, grow, config)
       IN  /\ found' = res.found
           /\ error' = res.error
           /\ pc' = IF res.error = "none" THEN "findObjectsReturned"
                    ELSE "findObjectsRaised"
    /\ UNCHANGED <<config, exp, bboxVars, selectVars, locatorVars, runVars,
                   image, nSigma, grow, sourceCentroid>>

\* The inputs of findObjects: pixels of 0, 1 or 3 standard deviations,
\* thresholds of 1 and 2, minimal sizes of 1 and 2 pixels.
PixelValues == {0, 1, 3}
Images ==
    UNION { [ 1 .. n -> PixelValues ] : n \in 1 .. MaxPixels }
NSigmaArgs == {0, 1, 2}
GrowArgs == (0 - 1) .. MaxGrow
FindConfigs ==
    { [ DefaultConfig EXCEPT !.mainStarNpixMin = np,
                             !.mainStarNsigma = ns,
                             !.mainStarGrow = g,
                             !.mainStarGrowIsotropic = iso ] :
        np \in {1, 2}, ns \in {1, 2}, g \in {0, 1}, iso \in BOOLEAN }

InitFind ==
    /\ pc = "findObjects"
    /\ config \in FindConfigs
    /\ image \in Images
    /\ nSigma \in NSigmaArgs
    /\ grow \in GrowArgs
    /\ found = NotFound
    /\ exp = DefaultExposure
    /\ centroid = <<0, 0>> /\ aperture = DefaultAperture /\ order = "+1"
    /\ xStart = 0 /\ xEnd = 0 /\ yStart = 0 /\ yEnd = 0
    /\ bbox = NoBox
    /\ footPrintSet = << >> /\ fluxCut = DefaultFluxCutArg
    /\ roundnessCut = DefaultRoundnessCutArg /\ source = 0
    /\ sourceCentroid = None
    /\ LocatorIdle
    /\ RunIdle
    /\ error = "none"

NextFind == FindObjects

SpecFind == InitFind /\ [][NextFind]_vars

-----------------------------------------------------------------------------
(* Properties of findObjects, checked under SpecFind. *)

FindObjectsDone == pc \in {"findObjectsReturned", "findObjectsRaised"}

\* The footprints the contract of findObjects asks for: detection at the
\* given (else the configured) significance, dilated by the given (else
\* the configured) radius when that is positive.
RequestedNSigma == IF nSigma = 0 THEN config.mainStarNsigma ELSE nSigma
RequestedGrow == IF grow = 0 THEN config.mainStarGrow ELSE grow
RequestedFootprints ==
    LET detected == Detect(image, RequestedNSigma, config.mainStarNpixMin)
    IN  IF RequestedGrow > 0
        THEN Dilate(image, detected, RequestedGrow,
                    Bound(config.mainStarGrowIsotropic))
        ELSE detected

\* C15: findObjects returns the detected footprint set for every combination
\* of its parameters: with grow omitted or 0 the configured growth radius
\* and isotropy flag are used, with an explicit positive grow the detected
\* regions are dilated by that radius; no combination makes the call fail
\* before the detection results are returned.
C15_FindObjectsAlwaysReturns ==
    FindObjectsDone =>
        /\ pc = "findObjectsReturned"
        /\ error = "none"
        /\ found.footPrintSet = RequestedFootprints
        /\ grow = 0 =>
              /\ found.grow = config.mainStarGrow
              /\ found.isotropic = Bound(config.mainStarGrowIsotropic)

\* What the code keeps of C15: the call returns the requested footprints
\* unless a positive grow is given.
C15_FindObjectsReturnsUnlessGrowGiven ==
    (FindObjectsDone /\ grow <= 0) => C15_FindObjectsAlwaysReturns

\* Every call with an explicit positive grow fails.
C15_ExplicitGrowAlwaysFails ==
    (FindObjectsDone /\ grow > 0) =>
        /\ pc = "findObjectsRaised"
        /\ error = "UnboundLocalError"

-----------------------------------------------------------------------------
(* The main-source selectors.                                              *)
(*                                                                         *)
(* A footprint is a record of its quadrupole moments (getShape), its flux  *)
(* (the sum of the image under its spans) and its centroid.  The code's    *)
(* float ellipticity e = sqrt(ePlus^2 + eCross^2) is represented exactly,  *)
(* by the fraction e^2 in lowest terms: e >= 0, so the order and the       *)
(* equality of two ellipticities are those of their squares.  Shapes have  *)
(* ixx + iyy > 0, where the code's division is defined.                    *)

MaxFootprints == 3      \* detections hold 0..MaxFootprints footprints

RECURSIVE GCD(_, _)
GCD(a, b) == IF b = 0 THEN a ELSE GCD(b, a % b)

\* a fraction <<n, d>>, d > 0, in lowest terms
Reduced(n, d) == LET g == GCD(n, d) IN <<n \div g, d \div g>>

\* p < q for fractions with positive denominators
FracLess(p, q) == p[1] * q[2] < q[1] * p[2]

\* the square of a fraction
Squared(q) == <<q[1] * q[1], q[2] * q[2]>>

\* _getEllipticity: ePlus = (ixx - iyy)/(ixx + iyy), eCross = 2*ixy/(ixx + iyy),
\* (ePlus**2 + eCross**2)**0.5; returned as its square
getEllipticity(shape) ==
    LET sum        == shape.ixx + shape.iyy
        ePlusNum   == shape.ixx - shape.iyy
        eCrossNum  == 2 * shape.ixy
    IN  Reduced(ePlusNum * ePlusNum + eCrossNum * eCrossNum, sum * sum)

\* A slip: footprints at the cut are kept.
FluxAboveCutOrEqual(flux, cut) == flux >= cut

\* if flux > fluxCut
FluxAboveCut(flux, cut) == flux > cut

\* A slip: footprints at the cut are kept.
RounderThanCutOrEqual(e, cut) == ~FracLess(Squared(cut), e)

\* if e < roundnessCut  (the cut is not negative)
RounderThanCut(e, cut) == FracLess(e, Squared(cut))

\* sourceDict[key] = value on a dict held as a function
DictSet(dict, key, value) ==
    [ k \in (DOMAIN dict) \cup {key} |-> IF k = key THEN value ELSE dict[k] ]

\* sorted(sourceDict.keys())[0] for ellipticity keys: the least key
FirstOfSortedEllipticities(keys) ==
    CHOOSE k \in keys : \A other \in keys : ~FracLess(other, k)

\* sorted(sourceDict.keys())[-1] for flux keys: the greatest key
LastOfSortedFluxes(keys) ==
    CHOOSE k \in keys : \A other \in keys : other <= k

\* getRoundestObject's loop: sourceDict after the first n footprints, keyed by
\* ellipticity, holding the index of the footprint stored under each key
RECURSIVE RoundestDict(_, _, _)
RoundestDict(fps, n, cut) ==
    IF n = 0 THEN << >>
    ELSE LET dict == RoundestDict(fps, n - 1, cut)
             e    == getEllipticity(fps[n].shape)
         IN  IF FluxAboveCut(fps[n].flux, cut) THEN DictSet(dict, e, n) ELSE dict

\* getBrightestObject's loop: sourceDict after the first n footprints, keyed by
\* flux
RECURSIVE BrightestDict(_, _, _)
BrightestDict(fps, n, cut) ==
    IF n = 0 THEN << >>
    ELSE LET dict == BrightestDict(fps, n - 1, cut)
             e    == getEllipticity(fps[n].shape)
         IN  IF RounderThanCut(e, cut)
             THEN DictSet(dict, fps[n].flux, n) ELSE dict

\* getRoundestObject: sourceDict[sorted(sourceDict.keys())[0]]; index 0 of an
\* empty list raises IndexError
getRoundestObject(fps, cut) ==
    LET sourceDict == RoundestDict(fps, Len(fps), cut)
    IN  IF DOMAIN sourceDict = {}
        THEN [ error |-> "IndexError", source |-> 0 ]
        ELSE [ error |-> "none",
               source |-> sourceDict[FirstOfSortedEllipticities(DOMAIN sourceDict)] ]

\* getBrightestObject: sourceDict[sorted(sourceDict.keys())[-1]]; index -1 of an
\* empty list raises IndexError
getBrightestObject(fps, cut) ==
    LET sourceDict == BrightestDict(fps, Len(fps), cut)
    IN  IF DOMAIN sourceDict = {}
        THEN [ error |-> "IndexError", source |-> 0 ]
        ELSE [ error |-> "none",
               source |-> sourceDict[LastOfSortedFluxes(DOMAIN sourceDict)] ]

\* A findMainSource in which each method applies the other method's cut:
\* the brightest of all footprints, if its flux is above mainStarFluxCut,
\* and the roundest of all, if it is rounder than mainStarRoundnessCut.
findMainSourceCutsSwapped(fps, cfg) ==
    LET res == IF cfg.mainSourceFindingMethod = "ROUNDEST"
               THEN getRoundestObject(fps, DefaultFluxCutArg)
               ELSE getBrightestObject(fps, DefaultRoundnessCutArg)
        kept == IF res.error # "none" THEN FALSE
                ELSE IF cfg.mainSourceFindingMethod = "ROUNDEST"
                THEN RounderThanCut(getEllipticity(fps[res.source].shape),
                                    cfg.mainStarRoundnessCut)
                ELSE FluxAboveCut(fps[res.source].flux, cfg.mainStarFluxCut)
    IN  IF ~kept
        THEN [ error |-> "IndexError", source |-> 0, centroid |-> None ]
        ELSE [ error |-> "none", source |-> res.source,
               centroid |-> fps[res.source].centroid ]

\* findMainSource on the footprints that findObjects(exp) detected: the
\* selector of the configured method, then source.getCentroid()
findMainSource(fps, cfg) ==
    LET res == IF cfg.mainSourceFindingMethod = "ROUNDEST"
               THEN getRoundestObject(fps, cfg.mainStarFluxCut)
               ELSE IF cfg.mainSourceFindingMethod = "BRIGHTEST"
               THEN getBrightestObject(fps, cfg.mainStarRoundnessCut)
               ELSE [ error |-> "RuntimeError", source |-> 0 ]
    IN  IF res.error # "none"
        THEN [ error |-> res.error, source |-> 0, centroid |-> None ]
        ELSE [ error |-> "none", source |-> res.source,
               centroid |-> fps[res.source].centroid ]

GetRoundestObject ==
    /\ pc = "getRoundestObject"
    /\ LET res == getRoundestObject(footPrintSet, fluxCut)
       IN  /\ source' = res.source
           /\ error' = res.error
           /\ pc' = IF res.error = "none" THEN "roundestReturned" ELSE "roundestRaised"
    /\ UNCHANGED <<config, exp, bboxVars, findVars, footPrintSet, fluxCut,
                   roundnessCut, locatorVars, runVars, sourceCentroid>>

GetBrightestObject ==
    /\ pc = "getBrightestObject"
    /\ LET res == getBrightestObject(footPrintSet, roundnessCut)
       IN  /\ source' = res.source
           /\ error' = res.error
           /\ pc' = IF res.error = "none" THEN "brightestReturned" ELSE "brightestRaised"
    /\ UNCHANGED <<config, exp, bboxVars, findVars, footPrintSet, fluxCut,
                   roundnessCut, locatorVars, runVars, sourceCentroid>>

FindMainSource ==
    /\ pc = "findMainSource"
    /\ LET res == findMainSource(footPrintSet, config)
       IN  /\ source' = res.source
           /\ sourceCentroid' = res.centroid
           /\ error' = res.error
           /\ pc' = IF res.error = "none" THEN "findReturned" ELSE "findRaised"
    /\ UNCHANGED <<config, exp, bboxVars, findVars, footPrintSet, fluxCut,
                   roundnessCut, locatorVars, runVars>>

\* The inputs of the selectors.  Two shapes are round (ellipticity 0), one
\* has ellipticity 1/3 and one 1/2; fluxes and cuts share their values, so
\* that footprints fall below, on and above each cut and tie with each other.
Shapes ==
    { [ ixx |-> 1, iyy |-> 1, ixy |-> 0 ],
      [ ixx |-> 2, iyy |-> 2, ixy |-> 0 ],
      [ ixx |-> 2, iyy |-> 1, ixy |-> 0 ],
      [ ixx |-> 2, iyy |-> 2, ixy |-> 1 ] }
Fluxes == {1, 2}
FluxCuts == {0, 1, 2}
RoundnessCuts == { <<0, 1>>, <<1, 5>>, <<1, 3>>, <<2, 1>> }

\* The i-th footprint of a detection; footprints are disjoint, so that no
\* two have the same centroid.
FootprintAt(i, shape, flux) ==
    [ shape |-> shape, flux |-> flux, centroid |-> Point(i, 2 * i) ]

FootprintSets ==
    UNION { { [ i \in 1 .. n |-> FootprintAt(i, sh[i], fl[i]) ] :
                sh \in [ 1 .. n -> Shapes ], fl \in [ 1 .. n -> Fluxes ] } :
            n \in 0 .. MaxFootprints }

SelectConfigs ==
    { [ DefaultConfig EXCEPT !.mainSourceFindingMethod = m,
                             !.mainStarFluxCut = fc,
                             !.mainStarRoundnessCut = rc ] :
        m \in FindingMethods, fc \in FluxCuts, rc \in RoundnessCuts }

InitSelect ==
    /\ \/ /\ pc = "findMainSource"
          /\ config \in SelectConfigs
          /\ fluxCut = DefaultFluxCutArg /\ roundnessCut = DefaultRoundnessCutArg
       \/ /\ pc = "getRoundestObject"
          /\ config = DefaultConfig
          /\ fluxCut \in FluxCuts /\ roundnessCut = DefaultRoundnessCutArg
       \/ /\ pc = "getBrightestObject"
          /\ config = DefaultConfig
          /\ fluxCut = DefaultFluxCutArg /\ roundnessCut \in RoundnessCuts
    /\ footPrintSet \in FootprintSets
    /\ exp = DefaultExposure
    /\ centroid = <<0, 0>> /\ aperture = DefaultAperture /\ order = "+1"
    /\ xStart = 0 /\ xEnd = 0 /\ yStart = 0 /\ yEnd = 0
    /\ bbox = NoBox
    /\ source = 0
    /\ sourceCentroid = None
    /\ LocatorIdle
    /\ RunIdle
    /\ FindIdle
    /\ error = "none"

NextSelect == GetRoundestObject \/ GetBrightestObject \/ FindMainSource

SpecSelect == InitSelect /\ [][NextSelect]_vars

-----------------------------------------------------------------------------
(* Properties of the selectors, checked under SpecSelect. *)

\* The ellipticity (squared) and the flux of the i-th footprint.
EllipticityAt(i) == getEllipticity(footPrintSet[i].shape)
FluxAt(i) == footPrintSet[i].flux

\* The footprints that pass the cut of getBrightestObject / getRoundestObject.
RoundSurvivors(cut) ==
    { i \in 1 .. Len(footPrintSet) : FracLess(EllipticityAt(i), Squared(cut)) }
BrightSurvivors(cut) ==
    { i \in 1 .. Len(footPrintSet) : FluxAt(i) > cut }

\* C6: getBrightestObject, for every footprint set with a survivor, returns a
\* footprint of the set whose ellipticity is strictly below roundnessCut and
\* whose flux is the maximum among the footprints below the cut; a footprint
\* with ellipticity >= roundnessCut is never returned.
C6_BrightestOfRoundEnough ==
    /\ pc = "brightestReturned" =>
          /\ source \in RoundSurvivors(roundnessCut)
          /\ \A j \in RoundSurvivors(roundnessCut) : FluxAt(j) <= FluxAt(source)
    /\ pc = "brightestRaised" => RoundSurvivors(roundnessCut) = {}

\* a brighter footprint was rejected by the cut, and one sat exactly on it
C6_Witness ==
    /\ pc = "brightestReturned"
    /\ \E j \in 1 .. Len(footPrintSet) :
          /\ j \notin RoundSurvivors(roundnessCut)
          /\ EllipticityAt(j) = Squared(roundnessCut)
          /\ FluxAt(j) > FluxAt(source)

\* C7: getRoundestObject, for every footprint set with a survivor, returns a
\* footprint of the set whose flux is strictly above fluxCut and whose
\* ellipticity is the minimum among the footprints above the cut; a footprint
\* with flux <= fluxCut is never returned.
C7_RoundestOfBrightEnough ==
    /\ pc = "roundestReturned" =>
          /\ source \in BrightSurvivors(fluxCut)
          /\ \A j \in BrightSurvivors(fluxCut) :
                ~FracLess(EllipticityAt(j), EllipticityAt(source))
    /\ pc = "roundestRaised" => BrightSurvivors(fluxCut) = {}

\* a rounder footprint was rejected by the cut, on which its flux sat
C7_Witness ==
    /\ pc = "roundestReturned"
    /\ \E j \in 1 .. Len(footPrintSet) :
          /\ FluxAt(j) = fluxCut
          /\ FracLess(EllipticityAt(j), EllipticityAt(source))

\* C8: when no footprint survives the cut (an empty footprint set, or every
\* footprint rejected), getRoundestObject, getBrightestObject and
\* findMainSource end in a defined 'no source found' error, not in an
\* uncaught lookup or index failure.
C8_NoSurvivorIsDefinedError ==
    pc \in {"roundestRaised", "brightestRaised", "findRaised"} =>
        error \notin {"IndexError", "KeyError"}

\* What the finished findMainSource gave, and what it gives for the same
\* footprints under a configuration differing in one cut only.
FindMainSourceDone == pc \in {"findReturned", "findRaised"}
FindMainSourceGave ==
    [ error |-> error, source |-> source, centroid |-> sourceCentroid ]
WithRoundnessCut(rc) == [ config EXCEPT !.mainStarRoundnessCut = rc ]
WithFluxCut(fc) == [ config EXCEPT !.mainStarFluxCut = fc ]

C14_WitnessRoundest ==
    /\ pc = "findReturned"
    /\ config.mainSourceFindingMethod = "ROUNDEST"
    /\ source \notin RoundSurvivors(config.mainStarRoundnessCut)
    /\ \E j \in 1 .. Len(footPrintSet) : FluxAt(j) <= config.mainStarFluxCut

-----------------------------------------------------------------------------
(* The target locator.                                                     *)
(*                                                                         *)
(* catalogs.vizier is what Vizier.query_object gives for the target:       *)
(* "hip2", a table list holding the Hipparcos table I/311/hip2; "noHip2",  *)
(* a table list without it (empty for an unknown target), whose indexing   *)
(* raises the TypeError the code turns into ValueError; "queryFails", the  *)
(* query itself raising (the service is slow and unreliable), which is no  *)
(* ValueError.  catalogs.simbadEntries is the number of rows that          *)
(* Simbad.query_object gives.                                              *)

MaxSimbadEntries == 2   \* Simbad holds 0..MaxSimbadEntries rows for a target
MaxProperMotion == 1    \* proper motions 0..MaxProperMotion per year and axis
MaxEpochYears == 1      \* visits 0..MaxEpochYears years after J1991.25

VizierOutcomes == {"hip2", "noHip2", "queryFails"}

\* coord.apply_space_motion(new_obstime=obsTime): the position moved by the
\* proper motion over the years since the catalog epoch
ApplySpaceMotion(pos, pm, years) ==
    <<pos[1] + pm[1] * years, pos[2] + pm[2] * years>>

\* exp.getWcs().skyToPixel(targetLocation)
SkyToPixel(wcs, loc) ==
    Point(wcs.crpix[1] + (loc.x - wcs.crval[1]),
          wcs.crpix[2] + (loc.y - wcs.crval[2]))

\* vizierLocationForTarget
vizierLocationForTarget(e, cat, doMotion) ==
    IF cat.vizier = "queryFails"
    THEN [ error |-> "QueryError", location |-> None ]
    ELSE IF cat.vizier # "hip2"
    THEN [ error |-> "ValueError", location |-> None ]
    ELSE LET coord    == cat.hipPos
             newCoord == IF doMotion
                         THEN ApplySpaceMotion(coord, cat.pm, e.epochYears)
                         ELSE coord
         IN  [ error |-> "none",
               location |-> SpherePoint(newCoord[1], newCoord[2]) ]

\* A slip: only an empty answer of Simbad is refused.
SimbadRefusesEmptyOnly(n) == n = 0

\* if not obj: raise ValueError ... if len(obj) != 1: raise ValueError
SimbadRefuses(n) == (n = 0) \/ (n # 1)

\* simbadLocationForTarget
simbadLocationForTarget(cat) ==
    IF SimbadRefuses(cat.simbadEntries)
    THEN [ error |-> "ValueError", location |-> None ]
    ELSE [ error |-> "none",
           location |-> SpherePoint(cat.simbadPos[1], cat.simbadPos[2]) ]

\* The rest of getTargetCentroidFromWcs, from `if not targetLocation` on.
ProjectTarget(e, doMotion, from, loc, made, warned) ==
    IF loc.kind = "None"
    THEN [ error |-> "none", pixCoord |-> None, resultFrom |-> from,
           targetLocation |-> loc, calls |-> made, warnings |-> warned ]
    ELSE [ error |-> "none", pixCoord |-> SkyToPixel(e.wcs, loc),
           resultFrom |-> from, targetLocation |-> loc,
           calls |-> Append(made, "skyToPixel"),
           warnings |-> IF doMotion /\ from = "simbad"
                        THEN Append(warned, "noMotionCorrection") ELSE warned ]

\* getTargetCentroidFromWcs
getTargetCentroidFromWcs(e, cat, doMotion) ==
    LET viz == vizierLocationForTarget(e, cat, doMotion)
    IN  IF viz.error = "none"
        THEN ProjectTarget(e, doMotion, "vizier", viz.location, <<"vizier">>, << >>)
        ELSE IF viz.error # "ValueError"
        THEN [ error |-> viz.error, pixCoord |-> None, resultFrom |-> "None",
               targetLocation |-> None, calls |-> <<"vizier">>,
               warnings |-> << >> ]
        ELSE LET sim == simbadLocationForTarget(cat)
             IN  IF sim.error = "ValueError"
                 THEN [ error |-> "none", pixCoord |-> None,
                        resultFrom |-> "None", targetLocation |-> None,
                        calls |-> <<"vizier", "simbad">>,
                        warnings |-> <<"notInVizier", "simbadFailed">> ]
                 ELSE ProjectTarget(e, doMotion, "simbad", sim.location,
                                    <<"vizier", "simbad">>, <<"notInVizier">>)

GetTargetCentroidFromWcs ==
    /\ pc = "getTargetCentroidFromWcs"
    /\ LET res == getTargetCentroidFromWcs(exp, catalogs, doMotionCorrection)
       IN  /\ resultFrom' = res.resultFrom
           /\ targetLocation' = res.targetLocation
           /\ pixCoord' = res.pixCoord
           /\ calls' = res.calls
           /\ warnings' = res.warnings
           /\ error' = res.error
           /\ pc' = IF res.error = "none" THEN "locatorReturned" ELSE "locatorRaised"
    /\ UNCHANGED <<config, exp, bboxVars, findVars, selectVars, locatorIn,
                   runVars, sourceCentroid>>

ProperMotions == (0 .. MaxProperMotion) \X (0 .. MaxProperMotion)

\* Positions the catalogs hold and the two mappings of the exposures.
HipparcosPosition == <<5, 7>>
SimbadPosition == <<6, 8>>
WcsChoices == { [ crval |-> <<5, 7>>, crpix |-> <<2, 2>> ],
                [ crval |-> <<0, 0>>, crpix |-> <<0, 0>> ] }

CatalogStates ==
    [ vizier : VizierOutcomes, simbadEntries : 0 .. MaxSimbadEntries,
      hipPos : {HipparcosPosition}, pm : ProperMotions,
      simbadPos : {SimbadPosition} ]

InitLocator ==
    /\ pc = "getTargetCentroidFromWcs"
    /\ config = DefaultConfig
    /\ exp \in { [ DefaultExposure EXCEPT !.wcs = w, !.epochYears = t ] :
                   w \in WcsChoices, t \in 0 .. MaxEpochYears }
    /\ catalogs \in CatalogStates
    /\ doMotionCorrection \in BOOLEAN
    /\ resultFrom = "None" /\ targetLocation = None /\ pixCoord = None
    /\ calls = << >> /\ warnings = << >>
    /\ centroid = <<0, 0>> /\ aperture = DefaultAperture /\ order = "+1"
    /\ xStart = 0 /\ xEnd = 0 /\ yStart = 0 /\ yEnd = 0
    /\ bbox = NoBox
    /\ footPrintSet = << >> /\ fluxCut = DefaultFluxCutArg
    /\ roundnessCut = DefaultRoundnessCutArg /\ source = 0
    /\ sourceCentroid = None
    /\ RunIdle
    /\ FindIdle
    /\ error = "none"

NextLocator == GetTargetCentroidFromWcs

SpecLocator == InitLocator /\ [][NextLocator]_vars

-----------------------------------------------------------------------------
(* Properties of the target locator, checked under SpecLocator. *)

\* C10: getTargetCentroidFromWcs returns None without raising whenever Vizier
\* finds no Hipparcos entry and Simbad finds zero or more than one entry, and
\* then the coordinate mapping is never applied.
C10_NotFoundIsNone ==
    ( /\ pc \in {"locatorReturned", "locatorRaised"}
      /\ catalogs.vizier = "noHip2"
      /\ catalogs.simbadEntries # 1 )
    => ( /\ pc = "locatorReturned"
         /\ error = "none"
         /\ pixCoord = None
         /\ \A i \in 1 .. Len(calls) : calls[i] # "skyToPixel" )

\* Simbad held several entries for a target that Vizier did not hold
C10_Witness ==
    /\ pc = "locatorReturned"
    /\ catalogs.vizier = "noHip2"
    /\ catalogs.simbadEntries > 1
    /\ calls = <<"vizier", "simbad">>
    /\ pixCoord = None

\* The position each service holds for the target, as the code reads it.
VizierHolds ==
    LET moved == IF doMotionCorrection
                 THEN ApplySpaceMotion(catalogs.hipPos, catalogs.pm,
                                       exp.epochYears)
                 ELSE catalogs.hipPos
    IN  SpherePoint(moved[1], moved[2])
SimbadHolds == SpherePoint(catalogs.simbadPos[1], catalogs.simbadPos[2])
Queried(service) == \E i \in 1 .. Len(calls) : calls[i] = service

\* C11: the catalogs are tried in order: Simbad is queried whenever Vizier
\* yields no match or is unusable, and never when Vizier found the target;
\* the returned pixel coordinate is the projection of the position from the
\* first service that succeeded.
C11_OrderedFallback ==
    pc \in {"locatorReturned", "locatorRaised"} =>
        /\ calls[1] = "vizier"
        /\ catalogs.vizier # "hip2" => Queried("simbad")
        /\ catalogs.vizier = "hip2" =>
              /\ ~Queried("simbad")
              /\ pixCoord = SkyToPixel(exp.wcs, VizierHolds)
        /\ (catalogs.vizier # "hip2" /\ catalogs.simbadEntries = 1) =>
              pixCoord = SkyToPixel(exp.wcs, SimbadHolds)

\* The part of C11 that the code keeps: the order of the calls when the
\* Vizier query itself answers.
C11_OrderedFallbackWhenVizierAnswers ==
    (pc \in {"locatorReturned", "locatorRaised"} /\ catalogs.vizier # "queryFails")
        => C11_OrderedFallback

-----------------------------------------------------------------------------
(* runDataRef and run.                                                     *)
(*                                                                         *)
(* The butler holds, for the one dataId, the dataset types that exist and  *)
(* the stored calexp (its filter and its OBJECTX, OBJECTY).  The products  *)
(* of the external tasks are drawn when the code asks for them: the        *)
(* outcome of the astrometric solver, the answers of the catalogs, the     *)
(* footprints of the detection.  runDataRef may be called again on the     *)
(* same dataId once a call has returned or raised.                         *)

MaxRuns == 2            \* runDataRef is called 1..MaxRuns times on the dataId
MaxRunFootprints == 1   \* detections within runDataRef hold 0..MaxRunFootprints

DatasetTypes == {"postISRCCD", "icExp", "icSrc", "calexp"}

\* What solver.run does: it raises, or it returns a result whose scatter on
\* the sky is not below, or is below, 1 arcsecond.
AstromOutcomes == {"raises", "scatterBad", "scatterGood"}

\* if target in ['FlatField position', 'Park position', 'Test', 'NOTSET']
NonCelestialNames == {"FlatField position", "Park position", "Test", "NOTSET"}

\* An updateMetadata that writes (None, None) whatever centroid it is given.
updateMetadataWithoutCentroid(e, c) ==
    IF c.kind = "None"
    THEN [ error |-> "TypeError", exp |-> e ]
    ELSE [ error |-> "none", exp |-> [ e EXCEPT !.OBJECTXY = NoneNone ] ]

\* updateMetadata(exp, centroid=c); without the keyword c is (None, None).
\* centroid[0] of None raises TypeError.
updateMetadata(e, c) ==
    IF c.kind = "None"
    THEN [ error |-> "TypeError", exp |-> e ]
    ELSE [ error |-> "none", exp |-> [ e EXCEPT !.OBJECTXY = c ] ]

\* A runAstrometry that returns the solver's result whatever its scatter.
runAstrometryIgnoringScatter(e, outcome, cfg) ==
    LET originalFilter == e.filter
        withReference  == [ e EXCEPT !.filter = cfg.referenceFilterOverride ]
    IN  IF outcome = "raises"
        THEN [ result |-> "None", exp |-> withReference ]
        ELSE [ result |-> "result",
               exp |-> [ withReference EXCEPT !.filter = originalFilter ] ]

\* runAstrometry: the reference filter is set, the solver runs, and the
\* original filter is set again as the last statement of the try block.
runAstrometry(e, outcome, cfg) ==
    LET originalFilter == e.filter
        withReference  == [ e EXCEPT !.filter = cfg.referenceFilterOverride ]
    IN  IF outcome = "raises"
        THEN [ result |-> "None", exp |-> withReference ]
        ELSE [ result |-> IF outcome = "scatterGood" THEN "result" ELSE "None",
               exp |-> [ withReference EXCEPT !.filter = originalFilter ] ]

\* A run that checks the exposure's OBJECT only, whatever name is forced.
runCheckingObjectOnly(e, c, cfg) ==
    LET target == IF cfg.forceObjectName # "" THEN cfg.forceObjectName
                  ELSE e.OBJECT
    IN  IF e.OBJECT \in NonCelestialNames
        THEN [ error |-> "ValueError", called |-> FALSE, target |-> target ]
        ELSE IF c.kind = "None"
        THEN [ error |-> "TypeError", called |-> FALSE, target |-> target ]
        ELSE [ error |-> "none", called |-> TRUE, target |-> target ]

\* run: the target name is checked, then spectractor.run(exp, *sourceCentroid,
\* target, ...) is called; unpacking None raises TypeError.
run(e, c, cfg) ==
    LET target == IF cfg.forceObjectName # "" THEN cfg.forceObjectName
                  ELSE e.OBJECT
    IN  IF target \in NonCelestialNames
        THEN [ error |-> "ValueError", called |-> FALSE, target |-> target ]
        ELSE IF c.kind = "None"
        THEN [ error |-> "TypeError", called |-> FALSE, target |-> target ]
        ELSE [ error |-> "none", called |-> TRUE, target |-> target ]

\* The detections and the catalog answers met within runDataRef.
RunFootprintSets == { fps \in FootprintSets : Len(fps) <= MaxRunFootprints }
RunCatalogStates == { cat \in CatalogStates : cat.pm = <<0, 0>> }

\* butler.put(dataset, type, dataId)
ButlerPut(b, type) == [ b EXCEPT !.datasets = @ \cup {type} ]

InSeq(x, seq) == \E i \in 1 .. Len(seq) : seq[i] = x

\* Lines 575-581: postISRCCD is loaded, or made by isr, annotated and put.
RunDataRefIsr ==
    /\ pc = "runDataRef"
    /\ IF "postISRCCD" \in butler.datasets
       THEN UNCHANGED <<exp, butler, puts>>
       ELSE /\ exp' = updateMetadata(exp, NoneNone).exp
            /\ butler' = ButlerPut(butler, "postISRCCD")
            /\ puts' = Append(puts, "postISRCCD")
    /\ pc' = "charImage"
    /\ UNCHANGED <<config, bboxVars, findVars, selectVars, locatorVars,
                   existedAtStart, astromResult, spectractorCalls, runCount,
                   solverOutcome, runArgs, sourceCentroid, error>>

\* A characterisation step that puts only the one of icExp, icSrc that is
\* missing.
RunDataRefCharImagePutMissingOnly ==
    /\ pc = "charImage"
    /\ LET missing == SelectSeq(<<"icExp", "icSrc">>,
                                LAMBDA t : t \notin butler.datasets)
       IN  /\ butler' = [ butler EXCEPT !.datasets = @ \cup {"icExp", "icSrc"} ]
           /\ puts' = puts \o missing
    /\ pc' = "calexp"
    /\ UNCHANGED <<config, exp, bboxVars, findVars, selectVars, locatorVars,
                   existedAtStart, astromResult, spectractorCalls, runCount,
                   solverOutcome, runArgs, sourceCentroid, error>>

\* Lines 583-592: icExp and icSrc are loaded if both exist, else made and put.
RunDataRefCharImage ==
    /\ pc = "charImage"
    /\ IF "icExp" \in butler.datasets /\ "icSrc" \in butler.datasets
       THEN UNCHANGED <<butler, puts>>
       ELSE /\ butler' = ButlerPut(ButlerPut(butler, "icExp"), "icSrc")
            /\ puts' = puts \o <<"icExp", "icSrc">>
    /\ pc' = "calexp"
    /\ UNCHANGED <<config, exp, bboxVars, findVars, selectVars, locatorVars,
                   existedAtStart, astromResult, spectractorCalls, runCount,
                   solverOutcome, runArgs, sourceCentroid, error>>

\* Lines 594-598: an existing calexp is loaded with its stored centroid.
RunDataRefLoadCalexp ==
    /\ pc = "calexp"
    /\ "calexp" \in butler.datasets
    /\ exp' = [ exp EXCEPT !.filter = butler.calexp.filter,
                           !.OBJECTXY = butler.calexp.OBJECTXY ]
    /\ IF butler.calexp.OBJECTXY.kind = "NotSet"
       THEN /\ error' = "KeyError"
            /\ pc' = "runDataRefRaised"
            /\ UNCHANGED sourceCentroid
       ELSE /\ sourceCentroid' = butler.calexp.OBJECTXY
            /\ pc' = "run"
            /\ UNCHANGED error
    /\ UNCHANGED <<config, bboxVars, findVars, selectVars, locatorVars, runVars>>

\* Line 600: without a calexp the astrometric solver is run.
RunDataRefAstrometry ==
    /\ pc = "calexp"
    /\ "calexp" \notin butler.datasets
    /\ \E outcome \in AstromOutcomes :
          LET res == runAstrometry(exp, outcome, config)
          IN  /\ solverOutcome' = outcome
              /\ astromResult' = res.result
              /\ exp' = res.exp
    /\ pc' = "centroid"
    /\ UNCHANGED <<config, bboxVars, findVars, selectVars, locatorVars, butler,
                   existedAtStart, puts, spectractorCalls, runCount, runArgs,
                   sourceCentroid, error>>

\* Lines 601-603: after a good solve the centroid comes from the catalogs.
RunDataRefLocate ==
    /\ pc = "centroid"
    /\ astromResult = "result"
    /\ \E cat \in RunCatalogStates :
          LET res == getTargetCentroidFromWcs(exp, cat, TRUE)
          IN  /\ catalogs' = cat
              /\ doMotionCorrection' = TRUE
              /\ resultFrom' = res.resultFrom
              /\ targetLocation' = res.targetLocation
              /\ pixCoord' = res.pixCoord
              /\ calls' = res.calls
              /\ warnings' = res.warnings
              /\ error' = res.error
              /\ IF res.error = "none"
                 THEN /\ sourceCentroid' = res.pixCoord
                      /\ pc' = "storeCalexp"
                 ELSE /\ UNCHANGED sourceCentroid
                      /\ pc' = "runDataRefRaised"
    /\ UNCHANGED <<config, exp, bboxVars, findVars, selectVars, runVars>>

\* Lines 604-607: otherwise the centroid comes from findMainSource.
RunDataRefFindMainSource ==
    /\ pc = "centroid"
    /\ astromResult # "result"
    /\ \E fps \in RunFootprintSets :
          LET res == findMainSource(fps, config)
          IN  /\ footPrintSet' = fps
              /\ source' = res.source
              /\ error' = res.error
              /\ IF res.error = "none"
                 THEN /\ sourceCentroid' = res.centroid
                      /\ pc' = "storeCalexp"
                 ELSE /\ UNCHANGED sourceCentroid
                      /\ pc' = "runDataRefRaised"
    /\ UNCHANGED <<config, exp, bboxVars, findVars, fluxCut, roundnessCut,
                   locatorVars, runVars>>

\* Lines 609-610: the centroid is written to the metadata and the calexp put.
RunDataRefStoreCalexp ==
    /\ pc = "storeCalexp"
    /\ LET res == updateMetadata(exp, sourceCentroid)
       IN  IF res.error = "none"
           THEN /\ exp' = res.exp
                /\ butler' = [ ButlerPut(butler, "calexp") EXCEPT !.calexp =
                                 [ stored |-> TRUE, filter |-> res.exp.filter,
                                   OBJECTXY |-> res.exp.OBJECTXY ] ]
                /\ puts' = Append(puts, "calexp")
                /\ pc' = "run"
                /\ UNCHANGED error
           ELSE /\ error' = res.error
                /\ pc' = "runDataRefRaised"
                /\ UNCHANGED <<exp, butler, puts>>
    /\ UNCHANGED <<config, bboxVars, findVars, selectVars, locatorVars,
                   existedAtStart, astromResult, spectractorCalls, runCount,
                   solverOutcome, runArgs, sourceCentroid>>

\* Lines 619-629 and run (lines 751-761).
RunDataRefRun ==
    /\ pc = "run"
    /\ LET res == run(exp, sourceCentroid, config)
       IN  /\ error' = res.error
           /\ runArgs' = Append(runArgs, [ call |-> runCount,
                                           centroid |-> sourceCentroid,
                                           stored |-> InSeq("calexp", puts) ])
           /\ IF res.called
              THEN /\ spectractorCalls' =
                        Append(spectractorCalls,
                               [ centroid |-> sourceCentroid,
                                 target |-> res.target ])
                   /\ pc' = "runDataRefReturned"
              ELSE /\ UNCHANGED spectractorCalls
                   /\ pc' = "runDataRefRaised"
    /\ UNCHANGED <<config, exp, bboxVars, findVars, selectVars, locatorVars,
                   butler, existedAtStart, puts, astromResult, runCount,
                   solverOutcome, sourceCentroid>>

\* A later call of runDataRef on the same dataId: the repository is as the
\* earlier calls left it, the locals are fresh.
RunDataRefAgain ==
    /\ pc \in {"runDataRefReturned", "runDataRefRaised"}
    /\ runCount < MaxRuns
    /\ pc' = "runDataRef"
    /\ runCount' = runCount + 1
    /\ existedAtStart' = butler.datasets
    /\ puts' = << >>
    /\ astromResult' = "None"
    /\ solverOutcome' = "notRun"
    /\ exp' = [ exp EXCEPT !.filter = "observed", !.OBJECTXY = NotSet ]
    /\ sourceCentroid' = None
    /\ error' = "none"
    /\ catalogs' = DefaultCatalogs /\ doMotionCorrection' = TRUE
    /\ resultFrom' = "None" /\ targetLocation' = None /\ pixCoord' = None
    /\ calls' = << >> /\ warnings' = << >>
    /\ footPrintSet' = << >> /\ source' = 0
    /\ UNCHANGED <<config, bboxVars, findVars, fluxCut, roundnessCut, butler,
                   spectractorCalls, runArgs>>

\* The inputs of runDataRef.
ObjectNames == {"HD 185975"} \cup NonCelestialNames
ForcedNames == {"", "HD 205905", "Test"}
StoredCentroids == { Point(1, 2), Point(3, 1) }

RunConfigs ==
    { [ DefaultConfig EXCEPT !.mainSourceFindingMethod = m,
                             !.mainStarFluxCut = 1,
                             !.mainStarRoundnessCut = <<1, 3>>,
                             !.forceObjectName = f ] :
        m \in FindingMethods, f \in ForcedNames }

InitRun ==
    /\ pc = "runDataRef"
    /\ config \in RunConfigs
    /\ exp \in { [ DefaultExposure EXCEPT !.OBJECT = o ] : o \in ObjectNames }
    /\ \E have \in SUBSET DatasetTypes :
          /\ existedAtStart = have
          /\ IF "calexp" \in have
             THEN butler \in { [ datasets |-> have,
                                 calexp |-> [ stored |-> TRUE,
                                              filter |-> "observed",
                                              OBJECTXY |-> c ] ] :
                               c \in StoredCentroids }
             ELSE butler = [ datasets |-> have, calexp |-> NoCalexp ]
    /\ puts = << >>
    /\ astromResult = "None"
    /\ spectractorCalls = << >>
    /\ runCount = 1
    /\ solverOutcome = "notRun"
    /\ runArgs = << >>
    /\ FindIdle
    /\ LocatorIdle
    /\ centroid = <<0, 0>> /\ aperture = DefaultAperture /\ order = "+1"
    /\ xStart = 0 /\ xEnd = 0 /\ yStart = 0 /\ yEnd = 0
    /\ bbox = NoBox
    /\ footPrintSet = << >> /\ fluxCut = DefaultFluxCutArg
    /\ roundnessCut = DefaultRoundnessCutArg /\ source = 0
    /\ sourceCentroid = None
    /\ error = "none"

NextRun ==
    \/ RunDataRefIsr
    \/ RunDataRefCharImage
    \/ RunDataRefLoadCalexp
    \/ RunDataRefAstrometry
    \/ RunDataRefLocate
    \/ RunDataRefFindMainSource
    \/ RunDataRefStoreCalexp
    \/ RunDataRefRun
    \/ RunDataRefAgain

SpecRun == InitRun /\ [][NextRun]_vars

-----------------------------------------------------------------------------
(* Properties of runDataRef, checked under SpecRun. *)

\* The running call solved the astrometry and the target locator then
\* reported "not found" (it returned None).
LocatorReportedNotFound ==
    /\ astromResult = "result"
    /\ calls = <<"vizier", "simbad">>
    /\ pixCoord = None
    /\ pc \notin {"runDataRef", "charImage", "calexp", "centroid"}

\* C9: when the astrometric solve succeeded but the target locator reports
\* 'not found' (no match in either catalog, or several in Simbad), runDataRef
\* does not abort: the step goes on without raising an error.
C9_NotFoundDoesNotAbort ==
    LocatorReportedNotFound => pc # "runDataRefRaised"

\* The running call has chosen its centroid without a stored calexp.
CentroidChosen ==
    /\ solverOutcome # "notRun"
    /\ pc \in {"storeCalexp", "run", "runDataRefReturned", "runDataRefRaised"}

\* The centroid of the footprint that findMainSource selected.
DetectionBasedCentroid == footPrintSet[source].centroid

C12_WitnessBadScatter ==
    /\ pc = "runDataRefReturned"
    /\ solverOutcome = "scatterBad"
    /\ Len(spectractorCalls) > 0
    /\ spectractorCalls[Len(spectractorCalls)].centroid = DetectionBasedCentroid

\* The name run() takes for the target, and whether the running runDataRef
\* has called run().
EffectiveTarget ==
    IF config.forceObjectName # "" THEN config.forceObjectName ELSE exp.OBJECT
RunEntered ==
    /\ Len(runArgs) > 0
    /\ runArgs[Len(runArgs)].call = runCount

\* C13: whenever the effective target name (forceObjectName when set, else
\* the exposure's OBJECT) is one of the placeholders 'FlatField position',
\* 'Park position', 'Test', 'NOTSET', run raises the input-validation error
\* (ValueError) and spectractor.run is never invoked.
C13_PlaceholderTargetIsFatal ==
    /\ \A i \in 1 .. Len(spectractorCalls) :
          spectractorCalls[i].target \notin NonCelestialNames
    /\ (RunEntered /\ EffectiveTarget \in NonCelestialNames) =>
          /\ pc = "runDataRefRaised"
          /\ error = "ValueError"
          /\ \A i \in 1 .. Len(spectractorCalls) :
                spectractorCalls[i].target # EffectiveTarget

C13_Witness ==
    /\ RunEntered
    /\ config.forceObjectName = "Test"
    /\ exp.OBJECT = "HD 185975"
    /\ pc = "runDataRefRaised"
    /\ error = "ValueError"

C13_WitnessObject ==
    /\ RunEntered
    /\ config.forceObjectName = ""
    /\ exp.OBJECT = "Park position"
    /\ pc = "runDataRefRaised"
    /\ spectractorCalls = << >>

\* C16: runAstrometry leaves the exposure's filter unchanged: on every
\* return path (good scatter, bad scatter, the solver raising) the filter is
\* again the one the exposure had before the call (every exposure enters
\* runAstrometry with the filter of DefaultExposure), not the reference
\* filter.
C16_FilterUnchangedByAstrometry ==
    (pc = "centroid" /\ solverOutcome # "notRun") =>
        exp.filter = DefaultExposure.filter

\* What the code keeps of C16: the filter is restored whenever the solver
\* returns.
C16_FilterRestoredWhenSolverReturns ==
    (pc = "centroid" /\ solverOutcome \in {"scatterBad", "scatterGood"}) =>
        exp.filter = DefaultExposure.filter

\* C17, as stated: runDataRef never overwrites a dataset that already exists:
\* each of postISRCCD, icExp, icSrc and calexp is put only if it did not
\* exist for the dataId at the start of the run.
C17_NeverOverwrites ==
    \A i \in 1 .. Len(puts) : puts[i] \notin existedAtStart

IcPair == {"icExp", "icSrc"}
PastIsr == pc # "runDataRef"
PastCharImage == pc \notin {"runDataRef", "charImage"}

\* C17, amended: postISRCCD and calexp are put only if they did not exist at
\* the start of the run; icExp and icSrc are put together, exactly when at
\* least one of the two did not exist, so that an existing one of the pair
\* is overwritten when the other is missing.
C17_PutsOnlyWhatIsMissing ==
    /\ \A i \in 1 .. Len(puts) :
          /\ puts[i] \in {"postISRCCD", "calexp"} =>
                puts[i] \notin existedAtStart
          /\ puts[i] \in IcPair => ~(IcPair \subseteq existedAtStart)
    /\ PastIsr =>
          (InSeq("postISRCCD", puts) <=> "postISRCCD" \notin existedAtStart)
    /\ PastCharImage =>
          /\ InSeq("icExp", puts) <=> ~(IcPair \subseteq existedAtStart)
          /\ InSeq("icSrc", puts) <=> InSeq("icExp", puts)

C17_Witness ==
    /\ "icExp" \in existedAtStart
    /\ "icSrc" \notin existedAtStart
    /\ InSeq("icExp", puts)
    /\ InSeq("icSrc", puts)

\* C18: every calexp that runDataRef stores carries in OBJECTX, OBJECTY the
\* centroid that the same call passes to run(); a later runDataRef on the
\* dataId loads the stored calexp and passes that same centroid to run()
\* without repeating astrometry, catalog lookup or source finding, also
\* when the first call failed after storing the calexp.
C18_StoredCentroidIsPassedOn ==
    /\ \A i \in 1 .. Len(runArgs) :
          /\ "calexp" \in butler.datasets
          /\ runArgs[i].centroid = butler.calexp.OBJECTXY
    /\ (InSeq("calexp", puts) /\ pc = "run") =>
          butler.calexp.OBJECTXY = sourceCentroid
    /\ ("calexp" \in existedAtStart /\ PastCharImage /\ pc # "calexp") =>
          /\ pc \in {"run", "runDataRefReturned", "runDataRefRaised"}
          /\ sourceCentroid = butler.calexp.OBJECTXY
          /\ solverOutcome = "notRun"
          /\ calls = << >>
          /\ footPrintSet = << >>
          /\ ~InSeq("calexp", puts)
          /\ pc # "run" => RunEntered

C18_Witness ==
    /\ Len(runArgs) = 2
    /\ runArgs[1].call = 1 /\ runArgs[1].stored
    /\ runArgs[2].call = 2 /\ ~runArgs[2].stored
    /\ runArgs[2].centroid = runArgs[1].centroid
    /\ spectractorCalls = << >>
    /\ pc = "runDataRefRaised"

C18_WitnessReturned ==
    /\ Len(spectractorCalls) = 2
    /\ runArgs[1].stored
    /\ spectractorCalls[2].centroid = spectractorCalls[1].centroid
    /\ pc = "runDataRefReturned"

=============================================================================
